---------------------------- MODULE Spec2Model ----------------------------
(***************************************************************************)
(* A model of the grant chat backend (app.py): the data load at import     *)
(* time, the context helpers, the completion requester and /chat.          *)
(*                                                                         *)
(* Python strings are sequences of one-character strings, so that          *)
(* lower(), the substring test, str.startswith, slicing and the two        *)
(* regular expressions are computed character by character.                *)
(***************************************************************************)
EXTENDS Integers, Sequences, FiniteSets, TLC

VARIABLES
    \* process-wide state set at import time (app.py lines 22-69)
    client,                     \* "ok" or "None"
    grant_data,                 \* sequence of grant records
    grant_data_by_id,           \* opportunityID -> grant record
    simulated_financial_data,   \* a blob value, or FinNone
    \* the two files the startup reads
    grant_file, financial_file,
    \* one request of the /chat handler
    pc, body, user_question, conversation_history,
    selected_grants_for_context, fetched_content_raw, fetched_content_status,
    fetch_outcome, fetch_branch, oa_args, messages_for_api, completion_outcome, response,
    id_calls, kw_calls, fetch_calls, api_calls,
    \* the call and the result of a function applied on its own
    fn_args, fn_ret,
    \* the locals of the requests that worker threads handle at the same time
    threads

vars == <<client, grant_data, grant_data_by_id, simulated_financial_data,
          grant_file, financial_file,
          pc, body, user_question, conversation_history,
          selected_grants_for_context, fetched_content_raw, fetched_content_status,
          fetch_outcome, fetch_branch, oa_args, messages_for_api, completion_outcome,
          response, id_calls, kw_calls, fetch_calls, api_calls, fn_args, fn_ret,
          threads>>

startupVars == <<client, grant_data, grant_data_by_id, simulated_financial_data>>

fileVars == <<grant_file, financial_file>>

requestVars == <<pc, body, user_question, conversation_history,
                 selected_grants_for_context, fetched_content_raw, fetched_content_status,
                 fetch_outcome, fetch_branch, oa_args, messages_for_api,
                 completion_outcome, response,
                 id_calls, kw_calls, fetch_calls, api_calls>>

fnVars == <<fn_args, fn_ret>>

---------------------------------------------------------------------------
(* Characters and Python's string operations                               *)

LowerLetters == {"a","b","c","d","e","f","g","h","i","j","k","l","m",
                 "n","o","p","q","r","s","t","u","v","w","x","y","z"}

ToLower == [A |-> "a", B |-> "b", C |-> "c", D |-> "d", E |-> "e", F |-> "f",
            G |-> "g", H |-> "h", I |-> "i", J |-> "j", K |-> "k", L |-> "l",
            M |-> "m", N |-> "n", O |-> "o", P |-> "p", Q |-> "q", R |-> "r",
            S |-> "s", T |-> "t", U |-> "u", V |-> "v", W |-> "w", X |-> "x",
            Y |-> "y", Z |-> "z"]

UpperLetters == DOMAIN ToLower

Digits == {"0","1","2","3","4","5","6","7","8","9"}

\* the class \w of the re module
IsWordChar(c) == c \in LowerLetters \cup UpperLetters \cup Digits \cup {"_"}

\* the class \d of the re module
IsDigit(c) == c \in Digits

LowerChar(c) == IF c \in UpperLetters THEN ToLower[c] ELSE c

\* str.lower()
Lower(s) == [i \in 1..Len(s) |-> LowerChar(s[i])]

\* Python's "sub in s"
Contains(s, sub) ==
    \E i \in 0..(Len(s) - Len(sub)) : \A j \in 1..Len(sub) : s[i + j] = sub[j]

\* str.startswith
StartsWith(s, prefix) ==
    Len(prefix) <= Len(s) /\ SubSeq(s, 1, Len(prefix)) = prefix

Range(f) == {f[i] : i \in DOMAIN f}

Min(a, b) == IF a < b THEN a ELSE b

Max(a, b) == IF a < b THEN b ELSE a

\* Python's None where a string or a dict field is expected
None == <<"<None>">>

\* str(v) as an f-string renders it: None becomes the text "None"
Str(v) == IF v = None THEN <<"N","o","n","e">> ELSE v

\* bool(v) of a string or None
Truthy(v) == v # None /\ v # <<>>

\* dict.get(key, default)
Get(d, key, default) == IF key \in DOMAIN d THEN d[key] ELSE default

\* whether offset i of s (0..Len(s)) has a word character on its left / right
WordLeft(s, i) == i >= 1 /\ IsWordChar(s[i])

WordRight(s, i) == i < Len(s) /\ IsWordChar(s[i + 1])

\* the regular expression assertion \b at offset i
Boundary(s, i) == WordLeft(s, i) # WordRight(s, i)

\* n characters of class \d follow offset i
DigitsFrom(s, i, n) == i + n <= Len(s) /\ \A k \in 1..n : IsDigit(s[i + k])

---------------------------------------------------------------------------
(* find_opportunity_id (app.py 121-127)                                    *)

MinIdDigits == 6

MaxIdDigits == 7

\* length matched by \b(\d{6,7})\b at offset i, 0 for no match: the greedy
\* quantifier tries the longest run first and backtracks to shorter ones
RECURSIVE IdMatchTry(_, _, _)
IdMatchTry(s, i, n) ==
    IF n < MinIdDigits THEN 0
    ELSE IF DigitsFrom(s, i, n) /\ Boundary(s, i + n) THEN n
    ELSE IdMatchTry(s, i, n - 1)

IdMatchLen(s, i) == IF Boundary(s, i) THEN IdMatchTry(s, i, MaxIdDigits) ELSE 0

\* re.findall(r'\b(\d{6,7})\b', s): non-overlapping matches, left to right
RECURSIVE FindAllIds(_, _)
FindAllIds(s, i) ==
    IF i >= Len(s) THEN <<>>
    ELSE LET n == IdMatchLen(s, i)
         IN  IF n > 0 THEN <<SubSeq(s, i + 1, i + n)>> \o FindAllIds(s, i + n)
             ELSE FindAllIds(s, i + 1)

RECURSIVE FirstKnownId(_, _, _)
FirstKnownId(potential_ids, k, grant_lookup) ==
    IF k > Len(potential_ids) THEN None
    ELSE IF potential_ids[k] \in DOMAIN grant_lookup THEN potential_ids[k]
    ELSE FirstKnownId(potential_ids, k + 1, grant_lookup)

\* the first match is returned without the test of line 124
find_opportunity_id_unchecked(text, grant_lookup) ==
    IF FindAllIds(text, 0) = <<>> THEN None ELSE FindAllIds(text, 0)[1]

find_opportunity_id(text, grant_lookup) ==
    FirstKnownId(FindAllIds(text, 0), 1, grant_lookup)

---------------------------------------------------------------------------
(* extract_keywords and select_relevant_grants_by_keyword (app.py 114-140) *)

stop_words ==
    { <<"a">>, <<"a","n">>, <<"t","h","e">>, <<"i","s">>, <<"a","r","e">>,
      <<"i","n">>, <<"o","n">>, <<"f","o","r">>, <<"o","f">>, <<"a","n","d">>,
      <<"t","o">>, <<"w","h","a","t">>, <<"w","h","o">>, <<"t","e","l","l">>,
      <<"m","e">>, <<"a","b","o","u","t">>, <<"g","r","a","n","t">>,
      <<"g","r","a","n","t","s">>, <<"m","o","r","e">>,
      <<"d","e","t","a","i","l","s">>, <<"d","e","t","a","i","l">>,
      <<"h","e","l","p">>, <<"w","r","i","t","e">>,
      <<"f","i","n","a","n","c","i","a","l">>, <<"b","u","d","g","e","t">>,
      <<"f","u","n","d","i","n","g">> }

\* length of the run of word characters that starts right of offset i
RECURSIVE WordRunLen(_, _)
WordRunLen(s, i) == IF WordRight(s, i) THEN 1 + WordRunLen(s, i + 1) ELSE 0

\* re.findall(r'\b\w+\b', s)
RECURSIVE FindAllWords(_, _)
FindAllWords(s, i) ==
    IF i >= Len(s) THEN <<>>
    ELSE IF Boundary(s, i) /\ WordRight(s, i)
         THEN LET n == WordRunLen(s, i)
              IN  <<SubSeq(s, i + 1, i + n)>> \o FindAllWords(s, i + n)
         ELSE FindAllWords(s, i + 1)

extract_keywords(text) ==
    IF ~Truthy(text) THEN {}
    ELSE {w \in Range(FindAllWords(Lower(text), 0)) : w \notin stop_words /\ Len(w) > 2}

MAX_CONTEXT_GRANTS == 5

\* the f-string of line 135, lower-cased
search_text(grant_item) ==
    Lower(Str(Get(grant_item, "opportunityTitle", <<>>)) \o <<" ">>
          \o Str(Get(grant_item, "description", <<>>)) \o <<" ">>
          \o Str(Get(grant_item, "opportunityCategory", <<>>)))

\* the loop of lines 134-138 from index k on, relevant_grants collected so far
RECURSIVE SelectLoop(_, _, _, _, _)
SelectLoop(keywords, all_grants_list, k, relevant_grants, max_grants) ==
    IF k > Len(all_grants_list) THEN relevant_grants
    ELSE IF \E keyword \in keywords : Contains(search_text(all_grants_list[k]), keyword)
         THEN LET appended == Append(relevant_grants, all_grants_list[k])
              IN  IF Len(appended) >= max_grants THEN appended
                  ELSE SelectLoop(keywords, all_grants_list, k + 1, appended, max_grants)
         ELSE SelectLoop(keywords, all_grants_list, k + 1, relevant_grants, max_grants)

select_relevant_grants_by_keyword(question, all_grants_list, max_grants) ==
    LET keywords == extract_keywords(question)
    IN  IF keywords = {} THEN <<>>
        ELSE SelectLoop(keywords, all_grants_list, 1, <<>>, max_grants)

---------------------------------------------------------------------------
(* The data load at import time (app.py 32-69)                             *)

\* simulated_financial_data = None
FinNone == "None"

\* bool(v) of a loaded JSON document: None and the empty object are falsy
BlobTruthy(blob) == blob \notin {FinNone, "{}"}

EmptyLookup == [id \in {} |-> <<>>]

\* the loop of lines 45-47 without the test of line 46
RECURSIVE LoadLookupNoTest(_, _, _)
LoadLookupNoTest(items, k, lookup) ==
    IF k > Len(items) THEN lookup
    ELSE LET grant_item == items[k]
             oid == Get(grant_item, "opportunityID", None)
         IN  LoadLookupNoTest(items, k + 1,
                 [id \in DOMAIN lookup \cup {oid} |->
                     IF id = oid THEN grant_item ELSE lookup[id]])

\* the loop of lines 45-47: a later record with the same id overwrites
RECURSIVE LoadLookup(_, _, _)
LoadLookup(items, k, lookup) ==
    IF k > Len(items) THEN lookup
    ELSE LET grant_item == items[k]
             oid == Get(grant_item, "opportunityID", None)
         IN  IF Truthy(oid)
             THEN LoadLookup(items, k + 1,
                      [id \in DOMAIN lookup \cup {oid} |->
                          IF id = oid THEN grant_item ELSE lookup[id]])
             ELSE LoadLookup(items, k + 1, lookup)

\* the financial load of lines 51-55, reached only after the grant load
LoadFinancial(ff) == IF ff.t = "json" THEN ff.v ELSE FinNone

\* the whole try block: the first exception ends it, what was assigned stays
LoadData(gf, ff) ==
    IF gf.t = "list"
    THEN [grant_data |-> gf.items,
          grant_data_by_id |-> LoadLookup(gf.items, 1, EmptyLookup),
          simulated_financial_data |-> LoadFinancial(ff)]
    ELSE [grant_data |-> <<>>,
          grant_data_by_id |-> EmptyLookup,
          simulated_financial_data |-> FinNone]

---------------------------------------------------------------------------
(* fetch_with_requests_bs4 (app.py 73-110)                                 *)

\* A fetched string is its spelled-out leading text and the number of
\* characters that follow it: [text |-> <<...>>, more |-> n].
PyStr(text) == [text |-> text, more |-> 0]

StrLen(s) == Len(s.text) + s.more

StrTruthy(s) == StrLen(s) > 0

\* every prefix tested is shorter than the spelled-out text of a long string
StrStartsWith(s, prefix) == StartsWith(s.text, prefix)

\* s[:n]
StrTruncate(s, n) ==
    IF Len(s.text) >= n THEN [text |-> SubSeq(s.text, 1, n), more |-> 0]
    ELSE [text |-> s.text, more |-> Min(s.more, n - Len(s.text))]

ErrFetchPrefix ==
    <<"[","E","r","r","o","r"," ","f","e","t","c","h","i","n","g"," ",
      "c","o","n","t","e","n","t"," ","w","i","t","h"," ",
      "R","e","q","u","e","s","t","s",":"," ">>

TimeoutText ==
    <<"T","i","m","e","o","u","t"," ","c","o","n","n","e","c","t","i","n","g"," ","t","o"," ">>

HttpErrorText ==
    <<"4","0","4"," ","C","l","i","e","n","t"," ","E","r","r","o","r",":"," ",
      "N","o","t"," ","F","o","u","n","d"," ","f","o","r"," ","u","r","l",":"," ">>

ConnectionErrorText ==
    <<"C","o","n","n","e","c","t","i","o","n"," ","r","e","f","u","s","e","d">>

UnexpectedPrefix ==
    <<"[","U","n","e","x","p","e","c","t","e","d"," ","e","r","r","o","r"," ",
      "f","e","t","c","h","i","n","g"," ","c","o","n","t","e","n","t"," ",
      "w","i","t","h"," ","R","e","q","u","e","s","t","s"," ","f","o","r"," ">>

NoTextReturned ==
    <<"[","N","o"," ","t","e","x","t"," ","c","o","n","t","e","n","t"," ",
      "r","e","t","u","r","n","e","d","]">>

NoBodyTag ==
    <<"[","C","o","u","l","d"," ","n","o","t"," ","f","i","n","d"," ",
      "b","o","d","y"," ","t","a","g","]">>

\* what the network and the parser can do with one GET
FetchKinds == {"timeout", "http_error", "connection_error", "non_html",
               "html_main", "html_body", "html_no_body", "parse_exception"}

\* the kinds the function reports as a failure string
FetchFailureKinds == {"timeout", "http_error", "connection_error",
                      "html_no_body", "parse_exception"}

\* outcome: [kind |-> one of FetchKinds, page |-> the text of the page]
fetch_with_requests_bs4(url, outcome) ==
    CASE outcome.kind = "timeout" ->
            PyStr(ErrFetchPrefix \o TimeoutText \o url \o <<"]">>)
      [] outcome.kind = "http_error" ->
            PyStr(ErrFetchPrefix \o HttpErrorText \o url \o <<"]">>)
      [] outcome.kind = "connection_error" ->
            PyStr(ErrFetchPrefix \o ConnectionErrorText \o <<"]">>)
      [] outcome.kind = "non_html" ->
            IF StrTruthy(outcome.page) THEN outcome.page ELSE PyStr(NoTextReturned)
      [] outcome.kind = "html_main" -> outcome.page
      [] outcome.kind = "html_body" -> outcome.page
      [] outcome.kind = "html_no_body" -> PyStr(NoBodyTag)
      [] outcome.kind = "parse_exception" ->
            PyStr(UnexpectedPrefix \o url \o <<"]">>)

---------------------------------------------------------------------------
(* get_openai_response (app.py 143-231)                                    *)

MAX_HISTORY_LENGTH == 10

\* seq[start:], the stop left out
PySliceFrom(seq, start, stop) == SubSeq(seq, Max(Len(seq) + start, 0) + 1, Len(seq))

\* seq[start:stop] for start < 0 and stop < 0
PySliceNeg(seq, start, stop) ==
    SubSeq(seq, Max(Len(seq) + start, 0) + 1, Max(Len(seq) + stop, 0))

SystemMessage == [role |-> "system", content |-> <<"system_prompt">>]

\* a Python string argument that is "" or a json.dumps result
EmptyString == [text |-> ""]

JsonDumps(v) == [text |-> "json", of |-> v]

\* fetched_content_status = None
StatusNone == [none |-> TRUE]

\* a context block left out of the user message
Omitted == [omitted |-> TRUE]

NotConfiguredMsg == "Sorry, the chatbot is not configured correctly (OpenAI client issue)."

HistoryErrorMsg == "Sorry, there was an internal error processing the conversation history."

AuthErrorMsg == "Sorry, there's an issue with the chatbot configuration (Authentication Error). Please check the API key."

RateLimitMsg == "Sorry, the chatbot is currently experiencing high traffic (Rate Limit Exceeded). Please try again later."

ContextLengthMsg == "Sorry, the conversation history or the provided grant data is too long for the AI model to process. Please try starting a new topic or asking a more specific question."

ProviderErrorMsg == "Sorry, I encountered an error trying to reach the AI model (OpenAIError)."

UnexpectedErrorMsg == "Sorry, I encountered an unexpected error (Exception) while processing your request."

AssistantResponse == "assistant_response"

IsTurn(entry) == DOMAIN entry = {"role", "content"}

\* lines 189-200: the last turn with the context blocks that are truthy
UserMessage(latest_user_message, json_grant_context_str, fetched_web_content_status, internal_financial_context_str) ==
    [role |-> "user",
     content |->
        [question |-> latest_user_message.content,
         grants |-> IF json_grant_context_str # EmptyString
                    THEN json_grant_context_str ELSE Omitted,
         fetched |-> IF fetched_web_content_status # StatusNone
                        /\ StrTruthy(fetched_web_content_status)
                     THEN fetched_web_content_status ELSE Omitted,
         financial |-> IF internal_financial_context_str # EmptyString
                       THEN internal_financial_context_str ELSE Omitted]]

\* lines 149-200 without the test of lines 184-186: the last entry is sent
\* whatever its role
PrepareRequestNoRoleTest(the_client, full_history, json_grant_context_str, fetched_web_content_status, internal_financial_context_str) ==
    IF the_client = "None" THEN [kind |-> "return", answer |-> NotConfiguredMsg]
    ELSE IF Len(full_history) = 0 \/ ~IsTurn(full_history[Len(full_history)])
         THEN [kind |-> "raise"]
    ELSE [kind |-> "call",
          messages |->
             <<SystemMessage>>
             \o PySliceNeg(full_history, -(MAX_HISTORY_LENGTH * 2), -1)
             \o <<UserMessage(full_history[Len(full_history)], json_grant_context_str,
                              fetched_web_content_status,
                              internal_financial_context_str)>>]

\* lines 149-200, up to the call: either an early return, an exception that
\* leaves the function, or the messages to send
PrepareRequest(the_client, full_history, json_grant_context_str, fetched_web_content_status, internal_financial_context_str) ==
    IF the_client = "None" THEN [kind |-> "return", answer |-> NotConfiguredMsg]
    ELSE IF Len(full_history) = 0 \/ ~IsTurn(full_history[Len(full_history)])
         THEN [kind |-> "raise"]
    ELSE IF full_history[Len(full_history)].role # "user"
         THEN [kind |-> "return", answer |-> HistoryErrorMsg]
    ELSE [kind |-> "call",
          messages |->
             <<SystemMessage>>
             \o PySliceNeg(full_history, -(MAX_HISTORY_LENGTH * 2), -1)
             \o <<UserMessage(full_history[Len(full_history)], json_grant_context_str,
                              fetched_web_content_status,
                              internal_financial_context_str)>>]

\* what client.chat.completions.create can do
CompletionOutcomes == {"ok", "ok_no_content", "AuthenticationError", "RateLimitError",
                       "context_length_exceeded", "OpenAIError", "Exception"}

\* a message list with an entry that is no turn is rejected by the call
OutcomesFor(messages) ==
    IF \A k \in 1..(Len(messages) - 1) : IsTurn(messages[k])
    THEN CompletionOutcomes
    ELSE {"OpenAIError", "Exception"}

\* lines 202-231: every outcome of the call becomes a returned string
CompletionAnswer(outcome) ==
    CASE outcome = "ok" -> AssistantResponse
      [] outcome = "ok_no_content" -> UnexpectedErrorMsg
      [] outcome = "AuthenticationError" -> AuthErrorMsg
      [] outcome = "RateLimitError" -> RateLimitMsg
      [] outcome = "context_length_exceeded" -> ContextLengthMsg
      [] outcome = "OpenAIError" -> ProviderErrorMsg
      [] outcome = "Exception" -> UnexpectedErrorMsg

---------------------------------------------------------------------------
(* chat (app.py 235-322)                                                   *)

MAX_FETCHED_CONTENT_LENGTH == 4000

NoContentReturned ==
    <<"[","N","o"," ","c","o","n","t","e","n","t"," ","r","e","t","u","r","n","e","d"," ",
      "f","r","o","m"," ","f","e","t","c","h"," ","a","t","t","e","m","p","t",".","]">>

\* lines 253-256
is_general_request(user_q) ==
    \E q \in {Lower(user_q)} :
        \/ Contains(q, <<"w","r","i","t","e">>) /\ Contains(q, <<"g","r","a","n","t">>)
        \/ Contains(q, <<"b","u","d","g","e","t">>)
        \/ Contains(q, <<"f","i","n","a","n","c","i","a","l">>)
           /\ Contains(q, <<"d","i","s","t","r","i","c","t">>)
        \/ Contains(q, <<"f","u","n","d","i","n","g"," ","n","e","e","d">>)

\* line 272 without its test for "[Error"
IsFetchedContentNoErrorTest(raw) ==
    /\ StrTruthy(raw)
    /\ ~StrStartsWith(raw, <<"[","N","o"," ","c","o","n","t","e","n","t">>)
    /\ ~StrStartsWith(raw, <<"[","C","o","u","l","d"," ","n","o","t"," ","f","i","n","d">>)

\* line 272: the returned string is taken for page content
IsFetchedContent(raw) ==
    /\ StrTruthy(raw)
    /\ ~StrStartsWith(raw, <<"[","E","r","r","o","r">>)
    /\ ~StrStartsWith(raw, <<"[","N","o"," ","c","o","n","t","e","n","t">>)
    /\ ~StrStartsWith(raw, <<"[","C","o","u","l","d"," ","n","o","t"," ","f","i","n","d">>)

\* lines 272-280: the branch taken on the string the fetcher returned
FetchBranch(raw) ==
    IF IsFetchedContent(raw) THEN "content"
    ELSE IF StrTruthy(raw) THEN "failure"
    ELSE "empty"

FetchedStatus(raw) ==
    CASE FetchBranch(raw) = "content" -> StrTruncate(raw, MAX_FETCHED_CONTENT_LENGTH)
      [] FetchBranch(raw) = "failure" -> raw
      [] FetchBranch(raw) = "empty" -> PyStr(NoContentReturned)

NoResponse == [status |-> 0]

BadRequest == [status |-> 400, error |-> "Missing 'question' in request body"]

ServerError == [status |-> 500, error |-> "An internal server error occurred."]

Answer(bot_response) == [status |-> 200, answer |-> bot_response]

NoArgs == [none |-> TRUE]

\* the locals of a request that has just arrived
Fresh(data) ==
    [pc |-> "idle", body |-> data, user_question |-> None,
     conversation_history |-> [t |-> "list", v |-> <<>>],
     selected_grants_for_context |-> <<>>,
     fetched_content_raw |-> StatusNone, fetched_content_status |-> StatusNone,
     fetch_outcome |-> "none", fetch_branch |-> "none", oa_args |-> NoArgs,
     messages_for_api |-> <<>>, completion_outcome |-> "none", response |-> NoResponse,
     id_calls |-> 0, kw_calls |-> 0, fetch_calls |-> 0, api_calls |-> 0]

\* the except clause of lines 318-322
Raise500(r) == [r EXCEPT !.pc = "done", !.response = ServerError]

\* line 301 as a test for None
FinancialContextIfNotNone(blob) ==
    IF blob # FinNone THEN JsonDumps(blob) ELSE EmptyString

\* line 301: the financial context is attached when the blob is truthy
FinancialContext(blob) == IF BlobTruthy(blob) THEN JsonDumps(blob) ELSE EmptyString

\* line 292: the selected records are serialized when there are any
GrantContext(selected) == IF Len(selected) > 0 THEN JsonDumps(selected) ELSE EmptyString

\* lines 292-316: serialize the context, append the question to the history,
\* run get_openai_response up to the call of the completion service
Assemble(r, the_client, blob) ==
    IF r.conversation_history.t # "list" THEN Raise500(r)
    ELSE LET args == [full_history |->
                          Append(r.conversation_history.v,
                                 [role |-> "user", content |-> r.user_question]),
                      json_grant_context_str |-> GrantContext(r.selected_grants_for_context),
                      fetched_web_content_status |-> r.fetched_content_status,
                      internal_financial_context_str |-> FinancialContext(blob)]
             prep == PrepareRequest(the_client, args.full_history,
                                    args.json_grant_context_str,
                                    args.fetched_web_content_status,
                                    args.internal_financial_context_str)
             called == [r EXCEPT !.oa_args = args]
         IN  CASE prep.kind = "return" ->
                    [called EXCEPT !.pc = "done", !.response = Answer(prep.answer)]
               [] prep.kind = "raise" -> Raise500(called)
               [] prep.kind = "call" ->
                    [called EXCEPT !.pc = "completing", !.messages_for_api = prep.messages,
                                   !.api_calls = @ + 1]

\* the id found is ignored and the keyword matcher selects the records
SelectContextByKeyword(r, lookup, all_grants, the_client, blob) ==
    Assemble([r EXCEPT !.id_calls = @ + 1, !.kw_calls = @ + 1,
                       !.selected_grants_for_context =
                           select_relevant_grants_by_keyword(
                               r.user_question, all_grants, MAX_CONTEXT_GRANTS)],
             the_client, blob)

\* lines 259-290: the context strategy of a request that is not general
SelectContext(r, lookup, all_grants, the_client, blob) ==
    LET target_grant_id == find_opportunity_id(r.user_question, lookup)
        looked == [r EXCEPT !.id_calls = @ + 1]
        by_keyword ==
            [looked EXCEPT !.kw_calls = @ + 1,
                           !.selected_grants_for_context =
                               select_relevant_grants_by_keyword(
                                   r.user_question, all_grants, MAX_CONTEXT_GRANTS)]
    IN  IF Truthy(target_grant_id)
        THEN IF target_grant_id \in DOMAIN lookup /\ DOMAIN lookup[target_grant_id] # {}
             THEN LET specific_grant == lookup[target_grant_id]
                      one == [looked EXCEPT !.selected_grants_for_context = <<specific_grant>>]
                  IN  IF Truthy(Get(specific_grant, "link", None))
                      THEN [one EXCEPT !.pc = "fetching", !.fetch_calls = @ + 1]
                      ELSE Assemble(one, the_client, blob)
             ELSE Assemble(by_keyword, the_client, blob)
        ELSE Assemble(by_keyword, the_client, blob)

\* the classification of lines 253-259 left out: every question is looked up
chat_body_always_lookup(data, lookup, all_grants, the_client, blob) ==
    LET r == [Fresh(data) EXCEPT
                 !.user_question = data.question,
                 !.conversation_history =
                     Get(data, "history", [t |-> "list", v |-> <<>>])]
    IN  IF r.user_question = None THEN Raise500(r)
        ELSE SelectContext(r, lookup, all_grants, the_client, blob)

\* lines 243-316 up to the first blocking call, for a body with a question;
\* lower() of a question that is no string raises
chat_body(data, lookup, all_grants, the_client, blob) ==
    LET r == [Fresh(data) EXCEPT
                 !.user_question = data.question,
                 !.conversation_history =
                     Get(data, "history", [t |-> "list", v |-> <<>>])]
    IN  IF r.user_question = None THEN Raise500(r)
        ELSE IF is_general_request(r.user_question)
             THEN Assemble(r, the_client, blob)
             ELSE SelectContext(r, lookup, all_grants, the_client, blob)

\* lines 238-316 up to the first blocking call
chat(data, lookup, all_grants, the_client, blob) ==
    IF DOMAIN data = {} \/ "question" \notin DOMAIN data
    THEN [Fresh(data) EXCEPT !.pc = "done", !.response = BadRequest]
    ELSE chat_body(data, lookup, all_grants, the_client, blob)

\* lines 270-280 with a second try: a fetch that failed is made once more
AfterFetchRetry(r, outcome, the_client, blob) ==
    LET raw == fetch_with_requests_bs4(r.selected_grants_for_context[1].link, outcome)
    IN  IF outcome.kind \in FetchFailureKinds /\ r.fetch_calls < 2
        THEN [r EXCEPT !.fetch_calls = @ + 1, !.fetch_outcome = outcome.kind]
        ELSE Assemble([r EXCEPT !.fetch_outcome = outcome.kind,
                                !.fetched_content_raw = raw,
                                !.fetched_content_status = FetchedStatus(raw),
                                !.fetch_branch = FetchBranch(raw)],
                      the_client, blob)

\* lines 270-280 and on: the fetcher has returned
AfterFetch(r, outcome, the_client, blob) ==
    LET raw == fetch_with_requests_bs4(r.selected_grants_for_context[1].link, outcome)
    IN  Assemble([r EXCEPT !.fetch_outcome = outcome.kind,
                           !.fetched_content_raw = raw,
                           !.fetched_content_status = FetchedStatus(raw),
                           !.fetch_branch = FetchBranch(raw)],
                 the_client, blob)

\* lines 202-231 without the last except clause: the exception leaves the
\* function and the handler's except clause answers
AfterCompletionUncaught(r, outcome) ==
    IF outcome \in {"Exception", "ok_no_content"}
    THEN Raise500([r EXCEPT !.completion_outcome = outcome])
    ELSE [r EXCEPT !.pc = "done", !.completion_outcome = outcome,
                   !.response = Answer(CompletionAnswer(outcome))]

\* lines 202-231 and 316: the completion call has returned
AfterCompletion(r, outcome) ==
    [r EXCEPT !.pc = "done", !.completion_outcome = outcome,
              !.response = Answer(CompletionAnswer(outcome))]

\* the request's locals as one record, and back
Locals ==
    [pc |-> pc, body |-> body, user_question |-> user_question,
     conversation_history |-> conversation_history,
     selected_grants_for_context |-> selected_grants_for_context,
     fetched_content_raw |-> fetched_content_raw,
     fetched_content_status |-> fetched_content_status,
     fetch_outcome |-> fetch_outcome, fetch_branch |-> fetch_branch, oa_args |-> oa_args,
     messages_for_api |-> messages_for_api, completion_outcome |-> completion_outcome,
     response |-> response,
     id_calls |-> id_calls, kw_calls |-> kw_calls,
     fetch_calls |-> fetch_calls, api_calls |-> api_calls]

SetLocals(r) ==
    /\ pc' = r.pc
    /\ body' = r.body
    /\ user_question' = r.user_question
    /\ conversation_history' = r.conversation_history
    /\ selected_grants_for_context' = r.selected_grants_for_context
    /\ fetched_content_raw' = r.fetched_content_raw
    /\ fetched_content_status' = r.fetched_content_status
    /\ fetch_outcome' = r.fetch_outcome
    /\ fetch_branch' = r.fetch_branch
    /\ oa_args' = r.oa_args
    /\ messages_for_api' = r.messages_for_api
    /\ completion_outcome' = r.completion_outcome
    /\ response' = r.response
    /\ id_calls' = r.id_calls
    /\ kw_calls' = r.kw_calls
    /\ fetch_calls' = r.fetch_calls
    /\ api_calls' = r.api_calls

---------------------------------------------------------------------------
(* The inputs of the model                                                 *)

\* the most words of a question
MaxQuestionWords == 2

Id123456 == <<"1","2","3","4","5","6">>

Id7654321 == <<"7","6","5","4","3","2","1">>

Erosion == <<"e","r","o","s","i","o","n">>

Vocabulary ==
    { <<"w","r","i","t","e">>, <<"G","r","a","n","t">>, <<"B","U","D","G","E","T">>,
      <<"f","i","n","a","n","c","i","a","l">>, <<"d","i","s","t","r","i","c","t">>,
      <<"f","u","n","d","i","n","g"," ","n","e","e","d">>,
      Id123456, Id7654321, Erosion }

RECURSIVE JoinWords(_)
JoinWords(ws) ==
    IF Len(ws) = 0 THEN <<>>
    ELSE IF Len(ws) = 1 THEN ws[1]
    ELSE ws[1] \o <<" ">> \o JoinWords(Tail(ws))

Questions ==
    {JoinWords(ws) : ws \in UNION {[1..n -> Vocabulary] : n \in 0..MaxQuestionWords}}

\* a record with an id and no link, one with a link, one that matches no
\* keyword of the vocabulary, and records without an id
GrantNoLink ==
    [opportunityID |-> Id123456,
     opportunityTitle |-> <<"E","r","o","s","i","o","n"," ","C","o","n","t","r","o","l">>,
     description |-> None, opportunityCategory |-> <<"D">>]

GrantWithLink ==
    [opportunityID |-> Id7654321, opportunityTitle |-> <<"S","T","E","M">>,
     description |-> Erosion, opportunityCategory |-> None,
     link |-> <<"h","t","t","p",":","/","/","g","/","7">>]

GrantOther ==
    [opportunityID |-> <<"2","0","0","0","0","1">>, opportunityTitle |-> <<"S","T","E","M">>,
     description |-> <<>>, opportunityCategory |-> <<"D">>, link |-> None]

GrantNoId(c) ==
    [opportunityTitle |-> <<"S","o","i","l">>, description |-> None,
     opportunityCategory |-> Erosion \o <<" ", c>>]

GrantFileA ==
    [t |-> "list",
     items |-> <<GrantNoLink, GrantOther, GrantWithLink, GrantNoId("3"), GrantNoId("4"),
                 GrantNoId("5"), GrantNoId("6"), GrantNoId("7")>>]

GrantFiles == {GrantFileA, [t |-> "missing"]}

FinancialFiles == {[t |-> "missing"], [t |-> "json", v |-> "{}"],
                   [t |-> "json", v |-> "{budget: ...}"]}



\* n turns, user and assistant in turn, the k-th with a content of k characters
Dialogue(n) ==
    [k \in 1..n |-> [role |-> IF k % 2 = 1 THEN "user" ELSE "assistant",
                     content |-> [j \in 1..k |-> "#"]]]

\* the history field of a body: lists of turns, a list with an entry that is
\* no turn, and a value that is no list
Histories ==
    { [t |-> "list", v |-> <<>>],
      [t |-> "list", v |-> Dialogue(2 * MAX_HISTORY_LENGTH + 2)],
      [t |-> "list", v |-> <<[junk |-> "str"]>>],
      [t |-> "null"] }

\* JSON bodies: the empty object, objects without a question, objects with a
\* question (a string or null) and with or without a history
Bodies ==
    {[k \in {} |-> 0]}
    \cup {[history |-> h] : h \in Histories}
    \cup {[question |-> q] : q \in Questions \cup {None}}
    \cup {[question |-> q, history |-> h] : q \in Questions \cup {None}, h \in Histories}

PageTexts ==
    { PyStr(<<>>), PyStr(<<"A","p","p","l","y"," ","b","y"," ","M","a","y">>),
      [text |-> <<"A","p","p","l","y"," ","b","y"," ","M","a","y">>,
       more |-> MAX_FETCHED_CONTENT_LENGTH],
      [text |-> <<"[","E","r","r","o","r"," ","5","0","0","]"," ">>,
       more |-> MAX_FETCHED_CONTENT_LENGTH] }

FetchOutcomes ==
    {[kind |-> k, page |-> PyStr(<<>>)] : k \in FetchFailureKinds}
    \cup {[kind |-> k, page |-> p] : k \in FetchKinds \ FetchFailureKinds, p \in PageTexts}

---------------------------------------------------------------------------
(* The server: startup, then one request after the other                   *)

Idle == Fresh([k \in {} |-> 0])

Started(gf, ff, c) ==
    /\ grant_file = gf
    /\ financial_file = ff
    /\ client = c
    /\ grant_data = LoadData(gf, ff).grant_data
    /\ grant_data_by_id = LoadData(gf, ff).grant_data_by_id
    /\ simulated_financial_data = LoadData(gf, ff).simulated_financial_data

\* the locals of a handler that waits for a request
RestIdle ==
    /\ body = Idle.body
    /\ user_question = Idle.user_question
    /\ conversation_history = Idle.conversation_history
    /\ selected_grants_for_context = Idle.selected_grants_for_context
    /\ fetched_content_raw = Idle.fetched_content_raw
    /\ fetched_content_status = Idle.fetched_content_status
    /\ fetch_outcome = Idle.fetch_outcome
    /\ fetch_branch = Idle.fetch_branch
    /\ oa_args = Idle.oa_args
    /\ messages_for_api = Idle.messages_for_api
    /\ completion_outcome = Idle.completion_outcome
    /\ response = Idle.response
    /\ id_calls = 0 /\ kw_calls = 0 /\ fetch_calls = 0 /\ api_calls = 0

IdleLocals == pc = "idle" /\ RestIdle

NoFn == /\ fn_args = NoArgs /\ fn_ret = NoArgs

\* no worker thread besides the one of pc
NoThreads == threads = <<>>

Init ==
    /\ \E gf \in GrantFiles, ff \in FinancialFiles, c \in {"ok", "None"} : Started(gf, ff, c)
    /\ IdleLocals
    /\ NoFn
    /\ NoThreads

\* a request arrives and runs to its first blocking call or to its response
ChatReceive ==
    /\ pc = "idle"
    /\ \E data \in Bodies :
          \E r \in {chat(data, grant_data_by_id, grant_data, client,
                         simulated_financial_data)} : SetLocals(r)
    /\ UNCHANGED <<startupVars, fileVars, fnVars, threads>>

\* the web fetch returns and the request runs on
FetchReturn ==
    /\ pc = "fetching"
    /\ \E outcome \in FetchOutcomes :
          \E r \in {AfterFetch(Locals, outcome, client, simulated_financial_data)} :
              SetLocals(r)
    /\ UNCHANGED <<startupVars, fileVars, fnVars, threads>>

\* the completion call returns and the response is sent
CompletionReturn ==
    /\ pc = "completing"
    /\ \E outcome \in OutcomesFor(messages_for_api) :
          \E r \in {AfterCompletion(Locals, outcome)} : SetLocals(r)
    /\ UNCHANGED <<startupVars, fileVars, fnVars, threads>>

\* the handler has returned; the server waits for the next request
NextRequest ==
    /\ pc = "done"
    /\ SetLocals(Idle)
    /\ UNCHANGED <<startupVars, fileVars, fnVars, threads>>

Next == ChatReceive \/ FetchReturn \/ CompletionReturn \/ NextRequest

Spec == Init /\ [][Next]_vars

---------------------------------------------------------------------------
(* The functions applied on their own                                      *)

\* nothing loaded: the values of lines 33-36
NotStarted(gf, ff, c) ==
    /\ grant_file = gf
    /\ financial_file = ff
    /\ client = c
    /\ grant_data = <<>>
    /\ grant_data_by_id = EmptyLookup
    /\ simulated_financial_data = FinNone

\* a function is called with fn_args and returns fn_ret
Return(ret) ==
    /\ pc = "call"
    /\ pc' = "returned"
    /\ fn_ret' = ret
    /\ UNCHANGED <<startupVars, fileVars, fn_args, threads, body, user_question,
                   conversation_history, selected_grants_for_context,
                   fetched_content_raw, fetched_content_status, fetch_outcome,
                   fetch_branch, oa_args, messages_for_api, completion_outcome,
                   response, id_calls, kw_calls, fetch_calls, api_calls>>

CallWithClient(args, c) ==
    /\ NotStarted([t |-> "missing"], [t |-> "missing"], c)
    /\ RestIdle
    /\ pc = "call"
    /\ fn_args = args
    /\ fn_ret = NoArgs
    /\ NoThreads

CallWith(args) == CallWithClient(args, "ok")

RECURSIVE Concat(_)
Concat(ss) == IF Len(ss) = 0 THEN <<>> ELSE ss[1] \o Concat(Tail(ss))

\* find_opportunity_id on texts of up to MaxChunks chunks
MaxChunks == 3

Id654321 == <<"6","5","4","3","2","1">>

TextChunks == {Id123456, Id654321, Id7654321, <<"1">>, <<" ">>, <<"a">>, <<"_">>}

Texts == {Concat(cs) : cs \in UNION {[1..n -> TextChunks] : n \in 0..MaxChunks}}

IdPool == {Id123456, Id654321, Id7654321, Id123456 \o <<"1">>}

Lookups == {[id \in S |-> [opportunityID |-> id]] : S \in SUBSET IdPool}

InitFind ==
    \E text \in Texts, lookup \in Lookups :
        CallWith([text |-> text, grant_lookup |-> lookup])

CallFind == Return([result |-> find_opportunity_id(fn_args.text, fn_args.grant_lookup)])

SpecFind == InitFind /\ [][CallFind]_vars

\* select_relevant_grants_by_keyword on lists of up to MaxGrants records
\* and limits up to MaxLimit
MaxGrants == 3

MaxLimit == 2

SelectQuestions ==
    { Erosion, <<"E","R","O","S","I","O","N"," ","s","o","i","l">>,
      <<"t","e","l","l"," ","m","e">>, <<"n","o","n","e">>, <<>> }

GrantPool ==
    { [opportunityTitle |-> <<"E","r","o","s","i","o","n">>],
      [opportunityTitle |-> <<"S","T","E","M">>,
       description |-> <<"s","o","i","l"," ","e","r","o","s","i","o","n">>,
       opportunityCategory |-> None],
      [opportunityTitle |-> <<"S","T","E","M">>, description |-> <<>>,
       opportunityCategory |-> <<"M","a","t","h">>],
      GrantNoLink }

GrantLists == UNION {[1..n -> GrantPool] : n \in 0..MaxGrants}

InitSelect ==
    \E question \in SelectQuestions, all_grants_list \in GrantLists, max_grants \in 0..MaxLimit :
        CallWith([question |-> question, all_grants_list |-> all_grants_list,
                  max_grants |-> max_grants])

CallSelect ==
    Return([result |-> select_relevant_grants_by_keyword(
                           fn_args.question, fn_args.all_grants_list, fn_args.max_grants)])

SpecSelect == InitSelect /\ [][CallSelect]_vars

\* get_openai_response on histories of up to MaxHistoryEntries entries
MaxHistoryEntries == 22

\* n entries, the roles in turn from first on, the last entry's role given
HistoryOf(n, first, last) ==
    [k \in 1..n |->
        [role |-> IF k = n THEN last
                  ELSE IF k % 2 = 1 THEN first
                  ELSE IF first = "user" THEN "assistant" ELSE "user",
         content |-> [j \in 1..k |-> "#"]]]

FullHistories ==
    {HistoryOf(n, first, last) :
        n \in 0..MaxHistoryEntries, first \in {"user", "assistant"},
        last \in {"user", "assistant", "system"}}

InitHistory ==
    \E h \in FullHistories, c \in {"ok", "None"},
       g \in {EmptyString, JsonDumps(<<GrantNoLink>>)},
       f \in {StatusNone, PyStr(NoBodyTag)},
       i \in {EmptyString, JsonDumps("{budget: ...}")} :
        CallWithClient([full_history |-> h, json_grant_context_str |-> g,
                        fetched_web_content_status |-> f,
                        internal_financial_context_str |-> i], c)

CallRequester ==
    Return(PrepareRequest(client, fn_args.full_history, fn_args.json_grant_context_str,
                          fn_args.fetched_web_content_status,
                          fn_args.internal_financial_context_str))

SpecHistory == InitHistory /\ [][CallRequester]_vars

\* the data load on dataset files of up to MaxFileRecords records
MaxFileRecords == 3

RecordPool ==
    { GrantNoLink, GrantWithLink,
      [opportunityID |-> Id123456, opportunityTitle |-> <<"S","T","E","M">>],
      [opportunityTitle |-> <<"S","o","i","l">>],
      [opportunityID |-> <<>>, opportunityTitle |-> <<"S","o","i","l">>],
      [opportunityID |-> None, opportunityTitle |-> <<"S","T","E","M">>] }

LoadGrantFiles ==
    {[t |-> "missing"], [t |-> "malformed"]}
    \cup {[t |-> "list", items |-> items] :
             items \in UNION {[1..n -> RecordPool] : n \in 0..MaxFileRecords}}

LoadFinancialFiles == FinancialFiles \cup {[t |-> "malformed"]}

InitLoad ==
    /\ \E gf \in LoadGrantFiles, ff \in LoadFinancialFiles, c \in {"ok"} :
          NotStarted(gf, ff, c)
    /\ RestIdle
    /\ NoFn
    /\ NoThreads
    /\ pc = "import"

\* the try block of lines 37-69
LoadAtImport ==
    /\ pc = "import"
    /\ pc' = "idle"
    /\ grant_data' = LoadData(grant_file, financial_file).grant_data
    /\ grant_data_by_id' = LoadData(grant_file, financial_file).grant_data_by_id
    /\ simulated_financial_data' =
           LoadData(grant_file, financial_file).simulated_financial_data
    /\ UNCHANGED <<client, fileVars, fnVars, threads, body, user_question,
                   conversation_history, selected_grants_for_context,
                   fetched_content_raw, fetched_content_status, fetch_outcome,
                   fetch_branch, oa_args, messages_for_api, completion_outcome,
                   response, id_calls, kw_calls, fetch_calls, api_calls>>

SpecLoad == InitLoad /\ [][LoadAtImport]_vars

---------------------------------------------------------------------------
(* The claims                                                              *)

\* the request carries a question that is a string
HasQuestion == "question" \in DOMAIN body /\ body.question # None

\* a general request as the claims word it
ClaimGeneral(q) ==
    \E l \in {Lower(q)} :
        \/ Contains(l, <<"w","r","i","t","e">>) /\ Contains(l, <<"g","r","a","n","t">>)
        \/ Contains(l, <<"b","u","d","g","e","t">>)
        \/ Contains(l, <<"f","i","n","a","n","c","i","a","l">>)
           /\ Contains(l, <<"d","i","s","t","r","i","c","t">>)
        \/ Contains(l, <<"f","u","n","d","i","n","g"," ","n","e","e","d">>)

\* the user message sent to the completion service, when one was built
Sent == messages_for_api[Len(messages_for_api)].content

\* C1: a request whose question is general runs no identifier extraction, no
\* keyword matching and no web fetch, and hands the completion step no
\* selected records and no fetched content, only the financial blob if any,
\* also when the question holds an identifier of the lookup.
C1_GeneralSkipsLookup ==
    (pc # "idle" /\ HasQuestion /\ ClaimGeneral(body.question)) =>
        /\ id_calls = 0 /\ kw_calls = 0 /\ fetch_calls = 0
        /\ selected_grants_for_context = <<>>
        /\ fetched_content_status = StatusNone
        /\ oa_args # NoArgs =>
              /\ oa_args.json_grant_context_str = EmptyString
              /\ oa_args.fetched_web_content_status = StatusNone
              /\ oa_args.internal_financial_context_str
                    \in {EmptyString, JsonDumps(simulated_financial_data)}
        /\ Len(messages_for_api) > 0 =>
              /\ Sent.grants = Omitted
              /\ Sent.fetched = Omitted
              /\ Sent.financial \in {Omitted, JsonDumps(simulated_financial_data)}

\* a general question that names a record of the lookup was answered with
\* the financial context alone
C1_Witness ==
    /\ pc = "done" /\ HasQuestion /\ ClaimGeneral(body.question)
    /\ find_opportunity_id(body.question, grant_data_by_id) # None
    /\ response = Answer(AssistantResponse)
    /\ oa_args.internal_financial_context_str = JsonDumps(simulated_financial_data)

\* C2: a request that is not general and whose question holds an identifier
\* of the lookup selects exactly that record, without the keyword matcher;
\* if the record has no link there is no fetch, and the completion step gets
\* that record's JSON and no fetched-content status.
C2_KnownIdSelectsOneRecord ==
    (pc # "idle" /\ HasQuestion /\ ~ClaimGeneral(body.question)) =>
        \A id \in {find_opportunity_id(body.question, grant_data_by_id)} :
            id # None =>
                \A rec \in {grant_data_by_id[id]} :
                    /\ selected_grants_for_context = <<rec>>
                    /\ kw_calls = 0
                    /\ ~Truthy(Get(rec, "link", None)) =>
                          /\ fetch_calls = 0
                          /\ fetched_content_status = StatusNone
                          /\ oa_args # NoArgs =>
                                /\ oa_args.json_grant_context_str = JsonDumps(<<rec>>)
                                /\ oa_args.fetched_web_content_status = StatusNone
                          /\ Len(messages_for_api) > 0 =>
                                /\ Sent.grants = JsonDumps(<<rec>>)
                                /\ Sent.fetched = Omitted

\* the record without a link was selected by its id and answered
C2_Witness ==
    /\ pc = "done" /\ HasQuestion /\ ~ClaimGeneral(body.question)
    /\ selected_grants_for_context = <<GrantNoLink>>
    /\ fetch_calls = 0
    /\ Len(messages_for_api) > 0
    /\ Sent.grants = JsonDumps(<<GrantNoLink>>)
    /\ response = Answer(AssistantResponse)

\* a run of n digits with a word boundary on both sides starts right of offset i
IsIdRun(text, i, n) ==
    /\ i + n <= Len(text)
    /\ \A k \in 1..n : text[i + k] \in Digits
    /\ i = 0 \/ ~IsWordChar(text[i])
    /\ i + n = Len(text) \/ ~IsWordChar(text[i + n + 1])

\* the offsets where a run of 6 or 7 digits that is a key of the lookup starts
KnownRunStarts(text, lookup) ==
    {i \in 0..Len(text) :
        \E n \in 6..7 : IsIdRun(text, i, n) /\ SubSeq(text, i + 1, i + n) \in DOMAIN lookup}

Least(S) == CHOOSE i \in S : \A j \in S : i <= j

\* C3: find_opportunity_id returns none or a key of the lookup; a key it
\* returns is the leftmost word-bounded run of 6 or 7 digits that is a key,
\* and it returns none exactly when no such run is a key.
C3_FirstKnownRun ==
    pc = "returned" =>
        LET text == fn_args.text
            lookup == fn_args.grant_lookup
            starts == KnownRunStarts(text, lookup)
            result == fn_ret.result
        IN  /\ result = None \/ result \in DOMAIN lookup
            /\ result = None <=> starts = {}
            /\ starts # {} =>
                  \E n \in 6..7 :
                      /\ IsIdRun(text, Least(starts), n)
                      /\ result = SubSeq(text, Least(starts) + 1, Least(starts) + n)

\* an earlier run of the text is no key, and the run after it, a key, was
\* returned
C3_Witness ==
    /\ pc = "returned"
    /\ fn_ret.result # None
    /\ \E i \in 0..Len(fn_args.text), n \in 6..7 :
          /\ IsIdRun(fn_args.text, i, n)
          /\ i < Least(KnownRunStarts(fn_args.text, fn_args.grant_lookup))


\* a record matches when a keyword is a substring of its lower-cased title,
\* description or category
ClaimMatches(grant, keywords) ==
    \E keyword \in keywords :
        \E f \in {"opportunityTitle", "description", "opportunityCategory"} :
            Contains(Lower(Str(Get(grant, f, <<>>))), keyword)

RECURSIVE MatchingRecords(_, _)
MatchingRecords(grants, keywords) ==
    IF Len(grants) = 0 THEN <<>>
    ELSE (IF ClaimMatches(Head(grants), keywords) THEN <<Head(grants)>> ELSE <<>>)
         \o MatchingRecords(Tail(grants), keywords)

\* C4: for a question with keywords and a limit maxResults >= 0,
\* select_relevant_grants_by_keyword returns the first
\* min(maxResults, number of matching records) matching records in stored
\* order, so never more than maxResults records.
C4_FirstMatchesUpToLimit ==
    (pc = "returned" /\ extract_keywords(fn_args.question) # {}) =>
        LET matching == MatchingRecords(fn_args.all_grants_list,
                                        extract_keywords(fn_args.question))
        IN  /\ fn_ret.result = SubSeq(matching, 1, Min(fn_args.max_grants, Len(matching)))
            /\ Len(fn_ret.result) <= fn_args.max_grants

\* C5: for a history whose last entry is a user turn, the messages after the
\* system message are at most 19 earlier entries, those right before the
\* last entry, in their order, and then one user message built from the
\* last entry.
C5_HistoryTruncation ==
    (/\ pc = "returned" /\ client = "ok" /\ Len(fn_args.full_history) > 0
     /\ fn_args.full_history[Len(fn_args.full_history)].role = "user") =>
        /\ fn_ret.kind = "call"
        /\ LET h == fn_args.full_history
               msgs == fn_ret.messages
               prior == Len(msgs) - 2
           IN  /\ msgs[1].role = "system"
               /\ prior <= 19
               /\ prior = Min(Len(h) - 1, 19)
               /\ \A j \in 1..prior : msgs[1 + j] = h[Len(h) - 1 - prior + j]
               /\ msgs[Len(msgs)].role = "user"
               /\ msgs[Len(msgs)].content.question = h[Len(h)].content

\* a history of 22 entries was cut to its 19 entries before the last
C5_Witness ==
    /\ pc = "returned"
    /\ Len(fn_args.full_history) = 22
    /\ fn_ret.kind = "call"
    /\ Len(fn_ret.messages) = 21
    /\ fn_ret.messages[2] = fn_args.full_history[3]

WellFormedHistory ==
    /\ conversation_history.t = "list"
    /\ \A k \in DOMAIN conversation_history.v : IsTurn(conversation_history.v[k])

\* C7: with a question and a well-formed history, every failure of the
\* completion step ends the request with status 200 and a body
\* {answer: message}, the message being the one of the failure.
C7_CompletionFailuresAreAnswers ==
    (pc = "done" /\ HasQuestion /\ WellFormedHistory /\ oa_args # NoArgs) =>
        /\ response.status = 200
        /\ DOMAIN response = {"status", "answer"}
        /\ client = "None" => response.answer = NotConfiguredMsg
        /\ completion_outcome = "AuthenticationError" => response.answer = AuthErrorMsg
        /\ completion_outcome = "RateLimitError" => response.answer = RateLimitMsg
        /\ completion_outcome = "context_length_exceeded" =>
              response.answer = ContextLengthMsg
        /\ completion_outcome = "OpenAIError" => response.answer = ProviderErrorMsg
        /\ completion_outcome \in {"Exception", "ok_no_content"} =>
              response.answer = UnexpectedErrorMsg

\* the completion call raised an unexpected exception after a fetch, and
\* the request was answered
C7_Witness ==
    /\ pc = "done" /\ HasQuestion /\ WellFormedHistory
    /\ Len(conversation_history.v) > 0
    /\ fetch_calls = 1
    /\ completion_outcome = "Exception"
    /\ response = Answer(UnexpectedErrorMsg)

\* C8 as stated: whenever the financial blob was loaded, every request that
\* reaches the completion step passes the serialized blob.
C8_LoadedBlobAlwaysPassed ==
    (simulated_financial_data # FinNone /\ oa_args # NoArgs) =>
        /\ oa_args.internal_financial_context_str = JsonDumps(simulated_financial_data)
        /\ Len(messages_for_api) > 0 => Sent.financial = JsonDumps(simulated_financial_data)

\* C8 amended: a loaded blob that is not empty is passed, serialized, by
\* every request that reaches the completion step, whichever branch it took;
\* a blob that was not loaded or is the empty object is not passed, and the
\* request is answered all the same.
C8_NonEmptyBlobAlwaysPassed ==
    oa_args # NoArgs =>
        /\ simulated_financial_data \notin {"None", "{}"} =>
              /\ oa_args.internal_financial_context_str
                    = JsonDumps(simulated_financial_data)
              /\ Len(messages_for_api) > 0 =>
                    Sent.financial = JsonDumps(simulated_financial_data)
        /\ simulated_financial_data \in {"None", "{}"} =>
              /\ oa_args.internal_financial_context_str = EmptyString
              /\ Len(messages_for_api) > 0 => Sent.financial = Omitted
              /\ pc = "done" => response.status = 200

\* a request for a linked record fetched its page and sent the blob along
C8_Witness ==
    /\ pc = "done"
    /\ fetch_calls = 1
    /\ Len(messages_for_api) > 0
    /\ simulated_financial_data = "{budget: ...}"
    /\ Sent.financial = JsonDumps("{budget: ...}")
    /\ Sent.grants = JsonDumps(<<GrantWithLink>>)

\* the record has an opportunityID that is neither null nor empty
HasId(rec) == "opportunityID" \in DOMAIN rec /\ rec.opportunityID \notin {None, <<>>}

QuestionAbsent == "question" \notin DOMAIN body

HistoryNotAList == "history" \in DOMAIN body /\ body.history.t # "list"

HistoryWithNonTurn ==
    /\ "history" \in DOMAIN body
    /\ body.history.t = "list"
    /\ \E k \in DOMAIN body.history.v : ~IsTurn(body.history.v[k])

\* C10: a request whose question is absent or whose history is not a
\* well-formed sequence of turns gets a client-error response, not a
\* server-error response and not an answer.
C10_MalformedInputIsClientError ==
    (pc = "done" /\ (QuestionAbsent \/ HistoryNotAList \/ HistoryWithNonTurn)) =>
        response.status = 400

---------------------------------------------------------------------------
(* Requests handled at the same time: one worker thread per request, all  *)
(* reading the globals of the module                                       *)

\* the worker threads that serve /chat at the same time
Threads == {"t1", "t2"}

\* the data globals a handler reads (lines 33-36)
Globals ==
    [grant_data |-> grant_data, grant_data_by_id |-> grant_data_by_id,
     simulated_financial_data |-> simulated_financial_data]

\* line 265 with pop() for get(): the record found is taken out of the lookup
GlobalsAfterPop(g, r) ==
    IF r.id_calls = 1 /\ r.kw_calls = 0 /\ Len(r.selected_grants_for_context) = 1
    THEN [g EXCEPT !.grant_data_by_id =
             [id \in DOMAIN g.grant_data_by_id
                        \ {r.selected_grants_for_context[1].opportunityID} |->
                 g.grant_data_by_id[id]]]
    ELSE g

\* lines 236-322: chat() and the functions it calls name no global in a
\* global statement, assign only locals, read the lookup with `in` and
\* get(), and build new lists and strings from the records they read
GlobalsAfter(g, r) == g

SetGlobals(g) ==
    /\ grant_data' = g.grant_data
    /\ grant_data_by_id' = g.grant_data_by_id
    /\ simulated_financial_data' = g.simulated_financial_data

\* the requests the threads receive: no question, a general question, an id
\* of a record without and with a link, a keyword, any of them with a
\* history that is a list or null
ConcurrentBodies ==
    {[k \in {} |-> 0]}
    \cup {[question |-> q] :
             q \in {<<"B","U","D","G","E","T">>, Id123456, Id7654321, Erosion}}
    \cup {[question |-> Id7654321, history |-> [t |-> "null"]]}

\* a step of thread t leaves it with the locals r
ThreadStep(t, r) ==
    /\ threads' = [threads EXCEPT ![t] = r]
    /\ SetGlobals(GlobalsAfter(Globals, r))
    /\ UNCHANGED <<client, fileVars, fnVars, requestVars>>

InitConcurrent ==
    /\ \E gf \in GrantFiles, ff \in FinancialFiles, c \in {"ok", "None"} : Started(gf, ff, c)
    /\ IdleLocals
    /\ NoFn
    /\ threads = [t \in Threads |-> Idle]

\* lines 236-316: thread t receives a request and runs to its first blocking
\* call or to its response
ThreadReceive(t) ==
    /\ threads[t].pc = "idle"
    /\ \E data \in ConcurrentBodies :
          ThreadStep(t, chat(data, grant_data_by_id, grant_data, client,
                             simulated_financial_data))

\* the web fetch of thread t returns
ThreadFetchReturn(t) ==
    /\ threads[t].pc = "fetching"
    /\ \E outcome \in FetchOutcomes :
          ThreadStep(t, AfterFetch(threads[t], outcome, client, simulated_financial_data))

\* the completion call of thread t returns
ThreadCompletionReturn(t) ==
    /\ threads[t].pc = "completing"
    /\ \E outcome \in OutcomesFor(threads[t].messages_for_api) :
          ThreadStep(t, AfterCompletion(threads[t], outcome))

\* thread t has answered and takes the next request
ThreadNextRequest(t) ==
    /\ threads[t].pc = "done"
    /\ ThreadStep(t, Idle)

NextConcurrent ==
    \E t \in Threads :
        \/ ThreadReceive(t)
        \/ ThreadFetchReturn(t)
        \/ ThreadCompletionReturn(t)
        \/ ThreadNextRequest(t)

SpecConcurrent == InitConcurrent /\ [][NextConcurrent]_vars

C12_OneFetchThenOneCompletion ==
    /\ fetch_calls <= 1
    /\ api_calls <= 1
    /\ pc = "fetching" => (fetch_calls = 1 /\ fetch_outcome = "none" /\ api_calls = 0)
    /\ pc = "completing" => (api_calls = 1 /\ completion_outcome = "none")
    /\ (fetch_calls = 1 /\ api_calls = 1) => fetch_outcome # "none"
    /\ fetch_outcome # "none" => (fetch_calls = 1 /\ pc # "fetching")
    /\ completion_outcome # "none" => (api_calls = 1 /\ pc = "done")

\* a request whose fetch timed out and whose completion call was refused for
\* the rate limit has answered
C12_Witness ==
    /\ pc = "done"
    /\ fetch_calls = 1 /\ fetch_outcome = "timeout"
    /\ api_calls = 1 /\ completion_outcome = "RateLimitError"
    /\ response.status = 200


\* C13: whatever the fetcher returned, the fetched-content status of the
\* request, and the one handed to the completion step, has at most
\* MAX_FETCHED_CONTENT_LENGTH characters.
C13_FetchedStatusBounded ==
    /\ fetched_content_status # StatusNone =>
          StrLen(fetched_content_status) <= MAX_FETCHED_CONTENT_LENGTH
    /\ (oa_args # NoArgs /\ oa_args.fetched_web_content_status # StatusNone) =>
          StrLen(oa_args.fetched_web_content_status) <= MAX_FETCHED_CONTENT_LENGTH


\* C14: every failure the fetcher reports (timeout, HTTP or transport error,
\* no body found, unexpected exception, no text returned) makes the handler
\* take the failure branch, never the branch that stores page content.
C14_EveryFailureTakesFailureBranch ==
    (\/ fetch_outcome \in FetchFailureKinds
     \/ fetch_outcome = "non_html" /\ fetched_content_raw = PyStr(NoTextReturned)) =>
        fetch_branch = "failure"


\* C15: get_openai_response goes on to the call of the completion service
\* only with a configured client and a history whose last entry is a user
\* turn; without a client it returns the "not configured correctly" message,
\* and with a client and a last entry of another role it returns the
\* internal-error message, both without a call.
C15_CallOnlyWithClientAndUserTurn ==
    (pc = "returned" /\ Len(fn_args.full_history) > 0) =>
        LET last == fn_args.full_history[Len(fn_args.full_history)]
        IN  /\ fn_ret.kind = "call" => (client = "ok" /\ last.role = "user")
            /\ client = "None" =>
                  fn_ret = [kind |-> "return", answer |-> NotConfiguredMsg]
            /\ (client = "ok" /\ last.role # "user") =>
                  fn_ret = [kind |-> "return", answer |-> HistoryErrorMsg]

\* with a client, a history that ends in an assistant turn was answered with
\* the internal-error message
C15_Witness ==
    /\ pc = "returned"
    /\ client = "ok"
    /\ Len(fn_args.full_history) = MAX_HISTORY_LENGTH
    /\ fn_args.full_history[MAX_HISTORY_LENGTH].role = "assistant"
    /\ fn_ret = [kind |-> "return", answer |-> HistoryErrorMsg]


\* C16: when the grant file is missing or malformed and the financial file
\* is present and valid, the startup leaves an empty collection, an empty
\* lookup and the financial blob loaded, and the requests that reach the
\* completion step pass the blob.
C16_FinancialLoadedWithoutGrantFile ==
    (/\ grant_file.t # "list"
     /\ financial_file.t = "json"
     /\ BlobTruthy(financial_file.v)) =>
        /\ grant_data = <<>>
        /\ grant_data_by_id = EmptyLookup
        /\ simulated_financial_data = financial_file.v
        /\ oa_args # NoArgs =>
              oa_args.internal_financial_context_str = JsonDumps(financial_file.v)

=============================================================================
